---------------------------- MODULE Spec2Model ----------------------------
(***************************************************************************)
(* A model of pagerank.py: the transition model, the normalizer, the       *)
(* sampling estimator and the iterative solver.                            *)
(*                                                                         *)
(* Numbers.  Python's floats are modelled in two ways.  Values that the    *)
(* code obtains by a closed formula (transition probabilities, the draws   *)
(* of random.uniform, the normalizer's output) are exact rationals         *)
(* <<numerator, denominator>> in lowest terms.  The ranks of the iterative *)
(* solver, which are fed back into themselves round after round, are       *)
(* fixed-point numbers: the integer r stands for r / Scale, and every      *)
(* division rounds to that grid as every float operation rounds to the     *)
(* float grid.                                                             *)
(*                                                                         *)
(* A corpus is the sequence of its pages' link sets: page p of a corpus of *)
(* N pages is the number p in 1..N, and the order 1, 2, ..., N is the      *)
(* iteration order of the dict.                                            *)
(***************************************************************************)
EXTENDS Integers, Sequences, FiniteSets

\* ------------------------------------------------------------------ bounds

MaxPages == 3          \* corpora have at most MaxPages pages

MaxWeight == 2         \* a weight handed to normalize directly is in 0..MaxWeight

MaxSamples == 3        \* sample_pagerank is called with n in 1..MaxSamples

RndSteps == 4          \* random.uniform(0, 1) draws j / RndSteps, j in 0..RndSteps-1

Scale == 1000000       \* the fixed-point unit of the ranks: r stands for r / Scale

\* ------------------------------------------------------- rational numbers

Abs(x) == IF x < 0 THEN -x ELSE x

\* Euclid's algorithm.  (This and the two functions below are functions, not
\* operators, so that their arguments are evaluated once, before the call.)
Euclid[a \in Nat, b \in Nat] == IF b = 0 THEN a ELSE Euclid[b, a % b]

GCD(a, b) == Euclid[a, b]

\* n / d in lowest terms with a positive denominator (d # 0)
Rat(n, d) ==
    LET s == IF d < 0 THEN -1 ELSE 1
        g == GCD(Abs(n), Abs(d))
    IN  <<(s * n) \div g, (s * d) \div g>>

FromInt(n) == <<n, 1>>

Zero == FromInt(0)

One == FromInt(1)

Rats == Int \X Int

\* a + b over the least common denominator
Sum[a \in Rats, b \in Rats] ==
    LET g == GCD(a[2], b[2])
        l == (a[2] \div g) * b[2]
    IN  Rat(a[1] * (l \div a[2]) + b[1] * (l \div b[2]), l)

RAdd(a, b) == Sum[a, b]

RNeg(a) == <<-a[1], a[2]>>

RSub(a, b) == RAdd(a, RNeg(b))

\* a * b, cancelling across before multiplying
Product[a \in Rats, b \in Rats] ==
    LET g1 == GCD(Abs(a[1]), b[2])
        g2 == GCD(Abs(b[1]), a[2])
    IN  Rat((a[1] \div g1) * (b[1] \div g2), (a[2] \div g2) * (b[2] \div g1))

RMul(a, b) == Product[a, b]

\* a / b for b # 0
RDiv(a, b) == RMul(a, Rat(b[2], b[1]))

RLeq(a, b) == a[1] * b[2] <= b[1] * a[2]

RLess(a, b) == a[1] * b[2] < b[1] * a[2]

RAbs(a) == <<Abs(a[1]), a[2]>>

\* sum(f[x] for x in S), as Python's sum() over dict.values()
RECURSIVE RSum(_, _)
RSum(f, S) ==
    IF S = {} THEN Zero
    ELSE LET x == CHOOSE y \in S : \A z \in S : y <= z
         IN  RAdd(f[x], RSum(f, S \ {x}))

\* ------------------------------------------------------------- outcomes

\* a call returns a value or raises an exception
Return(v) == [kind |-> "return", value |-> v, error |-> ""]

Raise(e) == [kind |-> "raise", value |-> <<>>, error |-> e]

NoOutcome == [kind |-> "none", value |-> <<>>, error |-> ""]

\* ---------------------------------------------------------------- inputs

\* the corpora crawl() can produce on N pages: every link target is a page
\* of the corpus and no page links to itself
CorporaOf(N) ==
    {c \in [1..N -> SUBSET (1..N)] : \A p \in 1..N : p \notin c[p]}

Corpora == UNION {CorporaOf(N) : N \in 0..MaxPages}

\* damping factors: inside [0,1), the end point 1, and outside [0,1]
Dampings == {Zero, Rat(1, 2), Rat(17, 20), One, Rat(3, 2), Rat(-1, 2)}

\* the draws of random.uniform(0, 1)
RndDraws == {Rat(j, RndSteps) : j \in 0..(RndSteps - 1)}

\* ------------------------------------------------------------- normalize

\* the mutant: the total leaves out the first key's weight
normalize_skip_first(dict) ==
    LET total == RSum(dict, DOMAIN dict \ {1})
    IN  IF DOMAIN dict # {} /\ total = Zero THEN Raise("ZeroDivisionError")
        ELSE Return([key \in DOMAIN dict |->
                        RMul(RDiv(dict[key], total), FromInt(100))])

normalize(dict) ==
    LET total == RSum(dict, DOMAIN dict)
    IN  IF DOMAIN dict # {} /\ total = Zero THEN Raise("ZeroDivisionError")
        ELSE Return([key \in DOMAIN dict |->
                        RMul(RDiv(dict[key], total), FromInt(100))])

\* ------------------------------------------------------ transition_model

\* the mutant: the damped share is divided by the corpus size, not by the
\* number of links of the page
transition_model_by_corpus_size(c, pg, d) ==
    IF pg \notin DOMAIN c THEN Raise("KeyError")
    ELSE
    LET corpus_total_pages_count == Len(c)
        pages == c[pg]
        random_transition_probabilities == RSub(One, d)
        random_transition_probability ==
            RDiv(random_transition_probabilities, FromInt(corpus_total_pages_count))
        current_page_links == Cardinality(pages)
        free_probabilities == RSub(One, random_transition_probabilities)
        rank_per_page ==
            IF current_page_links > 0
            THEN RDiv(free_probabilities, FromInt(corpus_total_pages_count))
            ELSE Zero
    IN  Return([name \in DOMAIN c |->
                   IF name \in pages
                   THEN RAdd(random_transition_probability, rank_per_page)
                   ELSE random_transition_probability])

transition_model(c, pg, d) ==
    IF pg \notin DOMAIN c THEN Raise("KeyError")
    ELSE
    LET corpus_total_pages_count == Len(c)
        pages == c[pg]
        random_transition_probabilities == RSub(One, d)
        random_transition_probability ==
            RDiv(random_transition_probabilities, FromInt(corpus_total_pages_count))
        current_page_links == Cardinality(pages)
        free_probabilities == RSub(One, random_transition_probabilities)
        rank_per_page ==
            IF current_page_links > 0
            THEN RDiv(free_probabilities, FromInt(current_page_links))
            ELSE Zero
    IN  Return([name \in DOMAIN c |->
                   IF name \in pages
                   THEN RAdd(random_transition_probability, rank_per_page)
                   ELSE random_transition_probability])

\* ----------------------------------------------------------------- state

VARIABLES
    fn,              \* the function called: "" before the call
    pc,              \* "idle", "normalize_body", "sample_loop", "iterate_loop", "done"
    corpus,          \* argument: page -> set of linked pages
    damping_factor,  \* argument: a rational
    n,               \* argument of sample_pagerank
    dict,            \* argument of a direct call of normalize
    page,            \* argument of transition_model; sample_pagerank's current page
    i,               \* sample_pagerank: iterations of the for loop done
    samples,         \* sample_pagerank: page -> visits
    ranks,           \* iterate_pagerank: page -> rank (fixed point)
    ranks_update,    \* iterate_pagerank: the round's committed candidates
    changed,         \* iterate_pagerank: the round's flag
    todo,            \* iterate_pagerank: the pages the round's for loop has left
    outcome          \* what the call returned or raised

vars == <<fn, pc, corpus, damping_factor, n, dict, page, i, samples,
          ranks, ranks_update, changed, todo, outcome>>

sample_vars == <<i, samples>>

iterate_vars == <<ranks, ranks_update, changed, todo>>

Init ==
    /\ fn = ""
    /\ pc = "idle"
    /\ corpus = <<>>
    /\ damping_factor = Zero
    /\ n = 0
    /\ dict = <<>>
    /\ page = 0
    /\ i = 0
    /\ samples = <<>>
    /\ ranks = <<>>
    /\ ranks_update = <<>>
    /\ changed = FALSE
    /\ todo = <<>>
    /\ outcome = NoOutcome

\* ------------------------------------------------- calls of pure functions

\* transition_model(c, pg, d) called and returned (or raised)
CallTransitionModel ==
    /\ pc = "idle"
    /\ \E c \in Corpora, pg \in 1..MaxPages, d \in Dampings :
          /\ fn' = "transition_model"
          /\ corpus' = c
          /\ page' = pg
          /\ damping_factor' = d
          /\ outcome' = transition_model(c, pg, d)
    /\ pc' = "done"
    /\ UNCHANGED <<n, dict, sample_vars, iterate_vars>>

\* normalize(w) called on a dict of integer weights: the caller's dict is
\* bound to the parameter
NormalizeCall ==
    /\ pc = "idle"
    /\ \E m \in 0..MaxPages :
          \E w \in [1..m -> 0..MaxWeight] :
              /\ fn' = "normalize"
              /\ dict' = [key \in 1..m |-> FromInt(w[key])]
    /\ pc' = "normalize_body"
    /\ UNCHANGED <<corpus, damping_factor, n, page, sample_vars, iterate_vars, outcome>>

\* lines 52-56: the body fills a fresh result and returns it (or raises)
NormalizeReturn ==
    /\ pc = "normalize_body"
    /\ outcome' = normalize(dict)
    /\ pc' = "done"
    /\ UNCHANGED <<fn, corpus, damping_factor, n, dict, page, sample_vars, iterate_vars>>

\* --------------------------------------------------------- sample_pagerank

\* the cumulative scan of lines 103-108: the first key, from `key` on, at
\* which rnd, less the probabilities so far, is no longer positive; 0 when
\* the for loop runs out of keys without a break
RECURSIVE Scan(_, _, _)
Scan(result, rnd, key) ==
    IF key \notin DOMAIN result THEN 0
    ELSE LET rest == RSub(rnd, result[key])
         IN  IF RLeq(rest, Zero) THEN key ELSE Scan(result, rest, key + 1)

\* lines 95-98: the call, the random start page, the zeroed counters
SampleCall ==
    /\ pc = "idle"
    /\ \E c \in Corpora, d \in Dampings, nn \in 1..MaxSamples :
          /\ fn' = "sample_pagerank"
          /\ corpus' = c
          /\ damping_factor' = d
          /\ n' = nn
          /\ IF Len(c) = 0
             THEN \* random.randrange(0, 0)
                  /\ outcome' = Raise("ValueError")
                  /\ pc' = "done"
                  /\ UNCHANGED <<page, samples>>
             ELSE \E index \in 0..(Len(c) - 1) :
                      /\ page' = index + 1
                      /\ samples' = [p \in DOMAIN c |-> 0]
                      /\ pc' = "sample_loop"
                      /\ outcome' = NoOutcome
    /\ i' = 0
    /\ UNCHANGED <<dict, iterate_vars>>

\* lines 100-108: one iteration of the for loop
SampleStep ==
    /\ pc = "sample_loop"
    /\ i < n
    /\ \E rnd \in RndDraws :
          LET result == transition_model(corpus, page, damping_factor).value
              key == Scan(result, rnd, 1)
          IN  IF key # 0
              THEN /\ page' = key
                   /\ samples' = [samples EXCEPT ![key] = @ + 1]
              ELSE UNCHANGED <<page, samples>>
    /\ i' = i + 1
    /\ UNCHANGED <<fn, pc, corpus, damping_factor, n, dict, iterate_vars, outcome>>

\* line 110
SampleReturn ==
    /\ pc = "sample_loop"
    /\ i = n
    /\ outcome' = normalize([p \in DOMAIN samples |-> FromInt(samples[p])])
    /\ pc' = "done"
    /\ UNCHANGED <<fn, corpus, damping_factor, n, dict, page, sample_vars, iterate_vars>>

\* -------------------------------------------------------- iterate_pagerank

\* damping factors iterate_pagerank is called with: inside [0,1) and one
\* outside it
IterDampings == {Zero, Rat(1, 2), Rat(17, 20), Rat(-1, 2)}

\* line 123
precision == Scale \div 1000

\* the fixed-point number nearest below the rational r
ToFixed(r) == (r[1] * Scale) \div r[2]

\* the rational a fixed-point number stands for
FromFixed(r) == Rat(r, Scale)

\* line 126
initial(c) == Scale \div Len(c)

\* lines 128-132
inbound_links(c) ==
    [p \in DOMAIN c |-> {q \in DOMAIN c : p \in c[q]}]

\* line 134
k(c, d) == ToFixed(RDiv(RSub(One, d), FromInt(Len(c))))

\* the mutant: a linking page's rank is divided by the number of pages of
\* the corpus, not by the number of its links
RECURSIVE Acc_by_corpus_size(_, _, _)
Acc_by_corpus_size(c, rk, S) ==
    IF S = {} THEN 0
    ELSE LET linking_page == CHOOSE q \in S : \A z \in S : q <= z
         IN  (rk[linking_page] \div Len(c))
                 + Acc_by_corpus_size(c, rk, S \ {linking_page})

\* lines 140-142: acc over the linking pages in S
RECURSIVE Acc(_, _, _)
Acc(c, rk, S) ==
    IF S = {} THEN 0
    ELSE LET linking_page == CHOOSE q \in S : \A z \in S : q <= z
         IN  (rk[linking_page] \div Cardinality(c[linking_page]))
                 + Acc(c, rk, S \ {linking_page})

\* the mutant: a linking page passes on its whole rank, not rank / links
RECURSIVE AccWhole(_, _)
AccWhole(rk, S) ==
    IF S = {} THEN 0
    ELSE LET linking_page == CHOOSE q \in S : \A z \in S : q <= z
         IN  rk[linking_page] + AccWhole(rk, S \ {linking_page})

update_whole_rank(c, d, rk, p) ==
    k(c, d) + (d[1] * AccWhole(rk, inbound_links(c)[p])) \div d[2]

\* line 143, from the ranks rk
update(c, d, rk, p) ==
    k(c, d) + (d[1] * Acc(c, rk, inbound_links(c)[p])) \div d[2]

\* a dict with one more item
Put(f, key, v) == [x \in DOMAIN f \cup {key} |-> IF x = key THEN v ELSE f[x]]

\* ranks.update(ranks_update)
Updated(rk, upd) == [p \in DOMAIN rk |-> IF p \in DOMAIN upd THEN upd[p] ELSE rk[p]]

\* the pages of a corpus in the order the for loop visits them
PagesOf(c) == [j \in 1..Len(c) |-> j]

\* lines 123-134, up to the first round
IterateCall ==
    /\ pc = "idle"
    /\ \E c \in Corpora, d \in IterDampings :
          /\ fn' = "iterate_pagerank"
          /\ corpus' = c
          /\ damping_factor' = d
          /\ IF Len(c) = 0
             THEN \* 1 / pages_count
                  /\ outcome' = Raise("ZeroDivisionError")
                  /\ pc' = "done"
                  /\ UNCHANGED <<ranks, todo>>
             ELSE /\ ranks' = [p \in DOMAIN c |-> initial(c)]
                  /\ todo' = PagesOf(c)
                  /\ pc' = "iterate_loop"
                  /\ outcome' = NoOutcome
    /\ ranks_update' = <<>>
    /\ changed' = FALSE
    /\ UNCHANGED <<n, dict, page, sample_vars>>

\* the mutant: a candidate is written into ranks as soon as it is computed
IteratePage_in_place ==
    /\ pc = "iterate_loop"
    /\ todo # <<>>
    /\ LET p == Head(todo)
           upd == update(corpus, damping_factor, ranks, p)
           prev == ranks[p]
           diff == prev - upd
       IN  IF Abs(diff) > precision
           THEN /\ ranks_update' = Put(ranks_update, p, upd)
                /\ ranks' = [ranks EXCEPT ![p] = upd]
                /\ changed' = TRUE
           ELSE UNCHANGED <<ranks, ranks_update, changed>>
    /\ todo' = Tail(todo)
    /\ UNCHANGED <<fn, pc, corpus, damping_factor, n, dict, page, sample_vars,
                   outcome>>

\* lines 139-148: the round's for loop takes its next page
IteratePage ==
    /\ pc = "iterate_loop"
    /\ todo # <<>>
    /\ LET p == Head(todo)
           upd == update(corpus, damping_factor, ranks, p)
           prev == ranks[p]
           diff == prev - upd
       IN  IF Abs(diff) > precision
           THEN /\ ranks_update' = Put(ranks_update, p, upd)
                /\ changed' = TRUE
           ELSE UNCHANGED <<ranks_update, changed>>
    /\ todo' = Tail(todo)
    /\ UNCHANGED <<fn, pc, corpus, damping_factor, n, dict, page, sample_vars,
                   ranks, outcome>>

\* the mutant: the flag is cleared once before the loop, not in every round
IterateCommit_flag_kept ==
    /\ pc = "iterate_loop"
    /\ todo = <<>>
    /\ changed
    /\ ranks' = Updated(ranks, ranks_update)
    /\ changed' = TRUE
    /\ ranks_update' = <<>>
    /\ todo' = PagesOf(corpus)
    /\ UNCHANGED <<fn, pc, corpus, damping_factor, n, dict, page, sample_vars, outcome>>

\* lines 151-152 and 137-138: the round changed a page; commit and go round
IterateCommit ==
    /\ pc = "iterate_loop"
    /\ todo = <<>>
    /\ changed
    /\ ranks' = Updated(ranks, ranks_update)
    /\ changed' = FALSE
    /\ ranks_update' = <<>>
    /\ todo' = PagesOf(corpus)
    /\ UNCHANGED <<fn, pc, corpus, damping_factor, n, dict, page, sample_vars, outcome>>

\* lines 149-150 and 154: the round changed nothing; break and return
IterateReturn ==
    /\ pc = "iterate_loop"
    /\ todo = <<>>
    /\ ~changed
    /\ outcome' = normalize([p \in DOMAIN ranks |-> FromFixed(ranks[p])])
    /\ pc' = "done"
    /\ UNCHANGED <<fn, corpus, damping_factor, n, dict, page, sample_vars, iterate_vars>>

\* --------------------------------------------------------- specifications

NextPure == CallTransitionModel \/ NormalizeCall \/ NormalizeReturn

NextSample == SampleCall \/ SampleStep \/ SampleReturn

\* a step of a call of iterate_pagerank that is under way
IterateStep == IteratePage \/ IterateCommit \/ IterateReturn

NextIterate == IterateCall \/ IterateStep

Next == NextPure \/ NextSample \/ NextIterate

\* every call the module offers
Spec == Init /\ [][Next]_vars

\* calls of transition_model and normalize
SpecPure == Init /\ [][NextPure]_vars

\* calls of sample_pagerank
SpecSample == Init /\ [][NextSample]_vars

\* the control of the while loop goes on: IterateStep as far as pc and todo
\* go.  A step of NextIterate that changes <<pc, todo>> in the loop is an
\* IterateStep and is a LoopAdvance step (LoopAdvanceIsIterateStep), so
\* fairness of LoopAdvance on <<pc, todo>> is fairness of IterateStep; stated
\* on LoopAdvance, it is decided without evaluating the ranks.
LoopAdvance ==
    /\ pc = "iterate_loop"
    /\ \/ todo # <<>> /\ todo' = Tail(todo) /\ pc' = pc
       \/ todo = <<>> /\ changed /\ todo' = PagesOf(corpus) /\ pc' = pc
       \/ todo = <<>> /\ ~changed /\ pc' = "done" /\ todo' = todo

\* calls of iterate_pagerank; a call that was made keeps running: the
\* interpreter does not stop in the middle of the loop
SpecIterate == Init /\ [][NextIterate]_vars /\ WF_<<pc, todo>>(LoopAdvance)

\* in the loop, the steps of the call and the steps of LoopAdvance are the same
LoopAdvanceIsIterateStep ==
    /\ [][pc = "iterate_loop" => (IterateStep /\ LoopAdvance)]_vars
    /\ [](pc = "iterate_loop" => ENABLED <<LoopAdvance>>_<<pc, todo>>)

\* ------------------------------------------------------------ properties

Returned(f) == pc = "done" /\ fn = f /\ outcome.kind = "return"

\* 0 <= d <= 1
InClosedUnit(d) == RLeq(Zero, d) /\ RLeq(d, One)

\* 0 <= d < 1
InHalfOpenUnit(d) == RLeq(Zero, d) /\ RLess(d, One)

\* C1: for a non-empty well-formed corpus, a page of it (one without links
\* included) and a damping factor in [0,1], the values transition_model
\* returns sum to 1.
C1_TransitionSumsToOne ==
    (/\ pc = "done"
     /\ fn = "transition_model"
     /\ page \in DOMAIN corpus
     /\ InClosedUnit(damping_factor))
    => /\ outcome.kind = "return"
       /\ RSum(outcome.value, DOMAIN outcome.value) = One

\* (1-d)/N + (d/|links(pg)| if p in links(pg) else 0), from the numerators
\* and denominators
TransitionFormula(c, pg, d, p) ==
    LET uniform == Rat(d[2] - d[1], d[2] * Len(c))
    IN  IF p \in c[pg]
        THEN RAdd(uniform, Rat(d[1], d[2] * Cardinality(c[pg])))
        ELSE uniform

PositiveTotal == RLess(Zero, RSum(dict, DOMAIN dict))

C3_Result ==
    (pc = "done" /\ fn = "normalize" /\ PositiveTotal)
    => LET total == RSum(dict, DOMAIN dict)
       IN  /\ outcome.kind = "return"
           /\ DOMAIN outcome.value = DOMAIN dict
           /\ \A key \in DOMAIN dict :
                 outcome.value[key] =
                     Rat(100 * dict[key][1] * total[2], dict[key][2] * total[1])
           /\ RSum(outcome.value, DOMAIN outcome.value) = FromInt(100)

\* C3: for non-negative weights of positive total, normalize returns a
\* mapping over the keys of its input whose value at each key is
\* weight/total*100, the values sum to 100, and the input is as it was
\* passed.
C3_Normalize == []C3_Result /\ [][fn = "normalize" => dict' = dict]_vars

\* C3's case: three keys, unequal weights, one of them zero
C3_Witness ==
    /\ Returned("normalize")
    /\ PositiveTotal
    /\ Len(dict) = 3
    /\ dict[1] = Zero
    /\ dict[2] # dict[3]

\* sum(samples.values())
RECURSIVE Visits(_, _)
Visits(f, S) ==
    IF S = {} THEN 0
    ELSE LET x == CHOOSE y \in S : TRUE IN f[x] + Visits(f, S \ {x})

\* C4: on the corpus of one page without links, for a damping factor in
\* [0,1), any n >= 1 and any draws, sample_pagerank and iterate_pagerank
\* both return, and return the whole mass (the normalizer's 100) at the page.
C4_SinglePageFullMass ==
    (/\ pc = "done"
     /\ fn \in {"sample_pagerank", "iterate_pagerank"}
     /\ corpus = <<{}>>
     /\ InHalfOpenUnit(damping_factor))
    => /\ outcome.kind = "return"
       /\ outcome.value = <<FromInt(100)>>

\* C9: in sample_pagerank on a non-empty well-formed corpus with a damping
\* factor in [0,1], every iteration counts exactly one visit: after i
\* iterations the counters sum to i, and to n when the call returns.
C9_OneVisitPerIteration ==
    (/\ fn = "sample_pagerank"
     /\ Len(corpus) > 0
     /\ InClosedUnit(damping_factor))
    => /\ DOMAIN samples = DOMAIN corpus
       /\ Visits(samples, DOMAIN samples) = i
       /\ pc = "done" => i = n /\ outcome.kind = "return"

\* C6: a call of transition_model, sample_pagerank or iterate_pagerank with
\* invalid input raises and returns nothing.  Invalid here is: an empty
\* corpus, a page that is no key of the corpus, or a damping factor outside
\* [0,1] (the factor 1, which transition_model is allowed, is left out, so
\* that no violation rests on it).
C6_InvalidInputRejected ==
    (/\ pc = "done"
     /\ fn \in {"transition_model", "sample_pagerank", "iterate_pagerank"}
     /\ \/ Len(corpus) = 0
        \/ ~InClosedUnit(damping_factor)
        \/ fn = "transition_model" /\ page \notin DOMAIN corpus)
    => outcome.kind = "raise"

\* ------------------------------------------- properties of the solver

InLoop == fn = "iterate_pagerank" /\ pc = "iterate_loop"

\* the candidate of page p from the ranks as they stand
Candidate(p) == update(corpus, damping_factor, ranks, p)

\* the candidate of p differs from its rank by more than 0.001
Exceeds(p) == Abs(ranks[p] - Candidate(p)) > precision

Range(seq) == {seq[j] : j \in DOMAIN seq}

\* within a round: the pages the for loop has passed are in ranks_update
\* exactly when they exceed the threshold, with their candidate as value
C7_RoundState ==
    InLoop =>
       LET passed == DOMAIN ranks \ Range(todo)
       IN  /\ DOMAIN ranks_update = {p \in passed : Exceeds(p)}
           /\ \A p \in DOMAIN ranks_update : ranks_update[p] = Candidate(p)
           /\ changed = (DOMAIN ranks_update # {})

\* while the for loop of a round runs, ranks is not written
C7_NoWriteInRound == (InLoop /\ todo # <<>>) => ranks' = ranks

\* after a round that goes on, a rank is its candidate if that exceeded the
\* threshold, and is unchanged otherwise
C7_Commit ==
    (InLoop /\ todo = <<>> /\ pc' = "iterate_loop")
    => ranks' = [p \in DOMAIN ranks |->
                    IF Exceeds(p) THEN Candidate(p) ELSE ranks[p]]

\* the loop ends after a round exactly when no page exceeded the threshold
C7_Stop ==
    (InLoop /\ todo = <<>>)
    => ((pc' = "done") <=> (\A p \in DOMAIN ranks : ~Exceeds(p)))

C7_AtReturn ==
    (pc = "done" /\ fn = "iterate_pagerank" /\ Len(corpus) > 0)
    => \A p \in DOMAIN ranks : ~Exceeds(p)

\* C7: in every round of iterate_pagerank the candidates are computed from
\* the ranks of the start of the round; after the round a rank is its
\* candidate if the two differ by more than 0.001 and unchanged otherwise;
\* the loop stops in the first round in which no page differs by more, so
\* that at return every rank is within 0.001 of its recomputed value.
C7_RoundSemantics ==
    /\ []C7_RoundState
    /\ [][C7_NoWriteInRound]_vars
    /\ [][C7_Commit]_vars
    /\ [][C7_Stop]_vars
    /\ []C7_AtReturn

\* C7's case: past the first round, a round ends in which one page exceeds
\* the threshold and another does not
C7_Witness ==
    /\ InLoop
    /\ todo = <<>>
    /\ \E p \in DOMAIN ranks : ranks[p] # initial(corpus)
    /\ \E p, q \in DOMAIN ranks : Exceeds(p) /\ ~Exceeds(q)

\* the arguments C8 and C10 are about
ValidIterateCall ==
    /\ fn = "iterate_pagerank"
    /\ Len(corpus) > 0
    /\ InHalfOpenUnit(damping_factor)

\* C8: for a non-empty well-formed corpus and a damping factor in [0,1) the
\* round loop of iterate_pagerank reaches a round without a change above
\* 0.001, and the call returns a distribution.
C8_Terminates ==
    ValidIterateCall ~> (pc = "done" /\ outcome.kind = "return")

\* C8's case: a call on three pages with damping 0.85 that returned after
\* rounds that changed the ranks
C8_Witness ==
    /\ ValidIterateCall
    /\ Returned("iterate_pagerank")
    /\ Len(corpus) = 3
    /\ damping_factor = Rat(17, 20)
    /\ \A p \in DOMAIN ranks : ranks[p] # initial(corpus)

ScenarioCorpus == <<{2}, {1, 3}, {1}>>

ScenarioReturned ==
    /\ pc = "done"
    /\ fn = "iterate_pagerank"
    /\ corpus = ScenarioCorpus
    /\ damping_factor = Rat(17, 20)

\* the returned value of p divided by the sum of the returned values
Share(p) == RDiv(outcome.value[p], RSum(outcome.value, DOMAIN outcome.value))

\* |x - c/100| <= 1/100
Near(x, c) == RLeq(RMul(RAbs(RSub(x, Rat(c, 100))), FromInt(100)), One)

\* C5 as stated: on the scenario corpus with damping 0.85 the returned
\* shares are 0.43, 0.23 and 0.33 to within 0.01.
C5_SharesAsStated ==
    ScenarioReturned
    => /\ outcome.kind = "return"
       /\ Near(Share(1), 43)
       /\ Near(Share(2), 23)
       /\ Near(Share(3), 33)

C5_Shares ==
    ScenarioReturned
    => /\ outcome.kind = "return"
       /\ Near(Share(1), 40)
       /\ Near(Share(2), 39)
       /\ Near(Share(3), 21)

\* C5, amended: on the scenario corpus with damping 0.85 iterate_pagerank
\* terminates and the returned shares are 0.40, 0.39 and 0.21 to within
\* 0.01.
C5_ScenarioShares ==
    /\ []C5_Shares
    /\ (fn = "iterate_pagerank" /\ corpus = ScenarioCorpus
            /\ damping_factor = Rat(17, 20)) ~> (pc = "done")

\* C5's case: the call on the scenario corpus returned
C5_Witness == ScenarioReturned /\ outcome.kind = "return"

=============================================================================
